---------------------------- MODULE Spec2Model ----------------------------
(***************************************************************************)
(* Mastermind (BrianZhang1/Mastermind-Game): the MastermindGame widget     *)
(* state, its event handlers and the GameHandler that replaces the game    *)
(* instance on restart.                                                    *)
(*                                                                         *)
(* Conventions.                                                            *)
(*  - Python lists are TLA+ sequences: python index i is position i+1.     *)
(*    button_list and feedback_label_list keep the python indices (they    *)
(*    are functions on 0..n-1) because the code computes those indices.    *)
(*  - Python None is NoneRow (-1) for current_row, <<>> for secret_code    *)
(*    and NoneTime (0) for start_time.                                     *)
(*  - A tkinter Button whose state is DISABLED does not run its command;   *)
(*    that is the guard of every handler.  messagebox dialogs are modal:   *)
(*    while one is open (pc # "idle") no other handler runs.               *)
(*  - activate_current_row uses the colour name 'SystemButtonFace', which  *)
(*    is the Windows build's default button face; the model is that build. *)
(*  - The QUIT button (root.destroy) ends the program and is not modelled. *)
(***************************************************************************)
EXTENDS Integers, Sequences, FiniteSets, TLC

\* ------------------------------------------------------------------ bounds
\* total rows in the game (self.ROWS is 15 in the source)
ROWS == 2
\* how many entries of self.COLORS the game uses
NumColors == 2
\* how many entries of self.COLORS the scoring inputs are drawn from
ScoreColors == 4
\* how many entries of self.COLORS the permuted scoring inputs are drawn from
PermColors == 3
\* how many MastermindGame instances the handler may construct
MaxGames == 2
\* the values time.time() may return
MaxTime == 2

\* --------------------------------------------------------------- constants
COLUMNS == 4
\* the literal 4 of `correct_color_count == 4`
WIN_COUNT == 4
\* the literal 4 of `for i in range(4)`: feedback labels per row
PEGS == 4
ALL_COLORS == <<"red", "blue", "pink", "yellow", "green", "cyan">>
COLORS == SubSeq(ALL_COLORS, 1, NumColors)

NoneRow == -1
NoneTime == 0

Range(s) == {s[k] : k \in DOMAIN s}
ColorSet == Range(COLORS)
Codes(colors) == [1..COLUMNS -> colors]

VARIABLES
    game,                 \* GameHandler.game: which MastermindGame instance (1, 2, ...)
    current_row,
    secret_code,
    current_color,
    start_time,
    button_list,          \* index -> [background, state]
    feedback_label_list,  \* actual row -> (peg index -> background)
    start_button,
    submit_button,
    instructional_label,
    pc,                   \* "idle", or the modal dialog the handler is blocked in
    outcome,              \* the end-of-game messagebox this instance has shown
    attempts,             \* the attempt count printed in 'You win!'
    history,              \* the submissions this instance has scored, in order
    sS, sG, sOut, sPc     \* scoring harness: secret, guess, evaluation, position

gameVars == <<game, current_row, secret_code, current_color, start_time,
              button_list, feedback_label_list, start_button, submit_button,
              instructional_label, pc, outcome, attempts, history>>
scoreVars == <<sS, sG, sOut, sPc>>
vars == <<game, current_row, secret_code, current_color, start_time,
          button_list, feedback_label_list, start_button, submit_button,
          instructional_label, pc, outcome, attempts, history,
          sS, sG, sOut, sPc>>

\* ------------------------------------------------------------ python lists
\* list.index(x): the first position holding x; 0 stands for ValueError
ListIndex(list, x) ==
    IF \E k \in 1..Len(list) : list[k] = x
    THEN CHOOSE k \in 1..Len(list) :
            list[k] = x /\ \A j \in 1..(k-1) : list[j] # x
    ELSE 0

\* a removal that takes every occurrence of the value at k
ListPopAllEqual(list, k) == SelectSeq(list, LAMBDA x : x # list[k])

\* list.pop(k)
ListPop(list, k) == SubSeq(list, 1, k-1) \o SubSeq(list, k+1, Len(list))

\* x in list
ListIn(x, list) == \E k \in 1..Len(list) : list[k] = x

\* ----------------------------------------------------------------- scoring
\* the locals of the evaluation
EvalStart(secret) ==
    [correct_color_count |-> 0,
     correct_location_color_count |-> 0,
     correct_color_tracker |-> [k \in 1..COLUMNS |-> FALSE],
     remaining_colors |-> secret,
     printed |-> FALSE]

\* FirstPassStep that only counts: no removal from remaining_colors, no tracker
FirstPassStepCountOnly(st, i, submitted, secret) ==
    IF submitted[i] = secret[i]
    THEN [st EXCEPT !.correct_color_count = @ + 1]
    ELSE st

\* FirstPassStep that tests the colour against the whole secret, not position i
FirstPassStepAnywhere(st, i, submitted, secret) ==
    IF ListIn(submitted[i], secret)
    THEN LET st1 == [st EXCEPT !.correct_color_count = @ + 1]
             idx == ListIndex(st1.remaining_colors, submitted[i])
         IN  IF idx = 0
             THEN [st1 EXCEPT !.printed = TRUE]
             ELSE [st1 EXCEPT !.remaining_colors = ListPop(@, idx),
                              !.correct_color_tracker[i] = TRUE]
    ELSE st

\* FirstPassStep that also settles colour-only matches as it goes (one pass)
FirstPassStepSinglePass(st, i, submitted, secret) ==
    IF submitted[i] = secret[i]
    THEN LET st1 == [st EXCEPT !.correct_color_count = @ + 1]
             idx == ListIndex(st1.remaining_colors, submitted[i])
         IN  IF idx = 0
             THEN [st1 EXCEPT !.printed = TRUE]
             ELSE [st1 EXCEPT !.remaining_colors = ListPop(@, idx),
                              !.correct_color_tracker[i] = TRUE]
    ELSE IF ListIn(submitted[i], st.remaining_colors)
         THEN [st EXCEPT !.correct_location_color_count = @ + 1,
                         !.remaining_colors = ListPop(@, ListIndex(@, submitted[i])),
                         !.correct_color_tracker[i] = TRUE]
         ELSE st

\* one iteration of the first loop
FirstPassStep(st, i, submitted, secret) ==
    IF submitted[i] = secret[i]
    THEN LET st1 == [st EXCEPT !.correct_color_count = @ + 1]
             idx == ListIndex(st1.remaining_colors, submitted[i])
         IN  IF idx = 0
             THEN [st1 EXCEPT !.printed = TRUE]
             ELSE [st1 EXCEPT !.remaining_colors = ListPop(@, idx),
                              !.correct_color_tracker[i] = TRUE]
    ELSE st

\* SecondPassStep that leaves the matched colour in remaining_colors
SecondPassStepNoRemoval(st, i, submitted) ==
    IF st.correct_color_tracker[i]
    THEN st
    ELSE IF ListIn(submitted[i], st.remaining_colors)
         THEN [st EXCEPT !.correct_location_color_count = @ + 1]
         ELSE st

\* one iteration of the second loop
SecondPassStep(st, i, submitted) ==
    IF st.correct_color_tracker[i]
    THEN st
    ELSE IF ListIn(submitted[i], st.remaining_colors)
         THEN LET st1 == [st EXCEPT !.correct_location_color_count = @ + 1]
                  idx == ListIndex(st1.remaining_colors, submitted[i])
              IN  IF idx = 0
                  THEN [st1 EXCEPT !.printed = TRUE]
                  ELSE [st1 EXCEPT !.remaining_colors = ListPop(@, idx)]
         ELSE st

RECURSIVE FirstPass(_, _, _, _)
FirstPass(st, i, submitted, secret) ==
    IF i > Len(submitted)
    THEN st
    ELSE FirstPass(FirstPassStep(st, i, submitted, secret), i + 1, submitted, secret)

RECURSIVE SecondPass(_, _, _)
SecondPass(st, i, submitted) ==
    IF i > Len(submitted)
    THEN st
    ELSE SecondPass(SecondPassStep(st, i, submitted), i + 1, submitted)

\* lines 170-201 of handle_submit
Evaluate(secret, submitted) ==
    SecondPass(FirstPass(EvalStart(secret), 1, submitted, secret), 1, submitted)


\* ----------------------------------------------------------------- widgets
ButtonIndices == 0..(ROWS * COLUMNS - 1)

\* the indices of button_list[start_index:end_index] for a current_row
ActualRow(cr) == ROWS - 1 - cr
StartIndex(cr) == ActualRow(cr) * COLUMNS
EndIndex(cr) == (ActualRow(cr) + 1) * COLUMNS
RowIndices(cr) == {idx \in ButtonIndices : StartIndex(cr) <= idx /\ idx < EndIndex(cr)}

\* [button['background'] for button in submitted_button_row]
SubmittedColors(bl, cr) == [k \in 1..COLUMNS |-> bl[StartIndex(cr) + k - 1].background]

ActivateCurrentRow(bl, cr) ==
    [idx \in ButtonIndices |->
        IF idx \in RowIndices(cr)
        THEN [background |-> "SystemButtonFace", state |-> "active"]
        ELSE bl[idx]]

\* DeactivateCurrentRow that does not disable anything
DeactivateCurrentRowNoop(bl, cr) == bl

DeactivateCurrentRow(bl, cr) ==
    [idx \in ButtonIndices |->
        IF idx \in RowIndices(cr)
        THEN [bl[idx] EXCEPT !.state = "disabled"]
        ELSE bl[idx]]

\* NextRow that does not advance a row that is already set
NextRowStuck(cr) == IF cr = NoneRow THEN 0 ELSE cr

\* increment_current_row: the new current_row and the new button_list
NextRow(cr) == IF cr = NoneRow THEN 0 ELSE cr + 1

\* IncrementCurrentRow that leaves the previous row enabled
IncrementCurrentRowKeepsOld(bl, cr) ==
    [current_row |-> NextRow(cr),
     button_list |-> ActivateCurrentRow(bl, NextRow(cr))]

IncrementCurrentRow(bl, cr) ==
    LET bl1 == IF cr # NoneRow THEN DeactivateCurrentRow(bl, cr) ELSE bl
    IN  [current_row |-> NextRow(cr),
         button_list |-> ActivateCurrentRow(bl1, NextRow(cr))]

\* InvalidSubmission that looks at the first slot only
InvalidSubmissionFirstOnly(submitted_colors) == submitted_colors[1] \notin ColorSet

\* the validation loop of handle_submit: TRUE when showerror is raised
InvalidSubmission(submitted_colors) ==
    \E k \in 1..Len(submitted_colors) : submitted_colors[k] \notin ColorSet

HasWon(correct_color_count) == correct_color_count = WIN_COUNT

\* IsLastRow that is one row early
IsLastRowEarly(cr) == cr = ROWS - 1 - 1

IsLastRow(cr) == cr = ROWS - 1

\* the two while loops that paint the pegs; feedback_labels[4] is an IndexError
PegOverflow(exact, partial) == exact + partial > PEGS

\* PaintPegs with the two while loops in the other order
PaintPegsPartialFirst(labels, exact, partial) ==
    [k \in 0..(PEGS - 1) |->
        IF k < partial THEN "white"
        ELSE IF k < exact + partial THEN "red"
        ELSE labels[k]]

PaintPegs(labels, exact, partial) ==
    [k \in 0..(PEGS - 1) |->
        IF k < exact THEN "red"
        ELSE IF k < exact + partial THEN "white"
        ELSE labels[k]]

ScoreLabel(ev) ==
    [text |-> "color(s) correct",
     color |-> ev.correct_location_color_count,
     location |-> ev.correct_color_count]

\* START left clickable after the game has started
StartButtonStaysNormal == "normal"

\* SUBMIT left clickable after the game has ended
SubmitButtonStaysActive == "active"

\* the state a button takes when the game starts and when it ends
StartButtonOnStart == "disabled"
SubmitButtonOnStart == "active"
SubmitButtonOnEnd == "disabled"

\* ------------------------------------------------------------- constructor
\* MastermindGame.__init__ and initialize_gui: the fields of a new instance
FreshGame ==
    [current_row |-> NoneRow,
     secret_code |-> <<>>,
     current_color |-> COLORS[1],
     start_time |-> NoneTime,
     button_list |-> [idx \in ButtonIndices |-> [background |-> "gray", state |-> "disabled"]],
     feedback_label_list |-> [r \in 0..(ROWS - 1) |-> [k \in 0..(PEGS - 1) |-> "black"]],
     start_button |-> "normal",
     submit_button |-> "disabled",
     instructional_label |-> [text |-> "Click START to begin.", color |-> 0, location |-> 0]]

\* GameHandler.__init__: self.game = MastermindGame(self.root, self.play_again)
NewGame(g) ==
    /\ game = g
    /\ current_row = FreshGame.current_row
    /\ secret_code = FreshGame.secret_code
    /\ current_color = FreshGame.current_color
    /\ start_time = FreshGame.start_time
    /\ button_list = FreshGame.button_list
    /\ feedback_label_list = FreshGame.feedback_label_list
    /\ start_button = FreshGame.start_button
    /\ submit_button = FreshGame.submit_button
    /\ instructional_label = FreshGame.instructional_label
    /\ pc = "idle"
    /\ outcome = "none"
    /\ attempts = 0
    /\ history = <<>>

ScoreIdle ==
    /\ sS = <<>>
    /\ sG = <<>>
    /\ sOut = EvalStart(<<>>)
    /\ sPc = "input"

Init == NewGame(1) /\ ScoreIdle

\* ---------------------------------------------------------------- handlers
\* set_color, the command of a palette button
SetColor(color) ==
    /\ pc = "idle"
    /\ current_color' = color
    /\ UNCHANGED <<game, current_row, secret_code, start_time, button_list,
                   feedback_label_list, start_button, submit_button,
                   instructional_label, pc, outcome, attempts, history>>
    /\ UNCHANGED scoreVars

\* update_button_color, the command of a play-area button
UpdateButtonColor(row, column) ==
    LET index == row * COLUMNS + column
    IN  /\ pc = "idle"
        /\ button_list[index].state # "disabled"
        /\ button_list' = [button_list EXCEPT ![index].background = current_color]
        /\ UNCHANGED <<game, current_row, secret_code, current_color, start_time,
                       feedback_label_list, start_button, submit_button,
                       instructional_label, pc, outcome, attempts, history>>
        /\ UNCHANGED scoreVars

\* start_game, the command of the START button
StartGame ==
    /\ pc = "idle"
    /\ start_button # "disabled"
    /\ start_button' = StartButtonOnStart
    /\ submit_button' = SubmitButtonOnStart
    /\ \E code \in Codes(ColorSet) : secret_code' = code
    /\ LET inc == IncrementCurrentRow(button_list, current_row)
       IN  /\ current_row' = inc.current_row
           /\ button_list' = inc.button_list
    /\ instructional_label' = [text |-> "Select four (4) colors.", color |-> 0, location |-> 0]
    /\ \E t \in 1..MaxTime : start_time' = t
    /\ UNCHANGED <<game, current_color, feedback_label_list, pc, outcome, attempts,
                   history>>
    /\ UNCHANGED scoreVars

\* Verdict that tests the last row before the win
VerdictLossFirst(correct_color_count, cr) ==
    IF IsLastRow(cr) THEN "lose"
    ELSE IF HasWon(correct_color_count) THEN "win"
    ELSE "continue"

\* the if / elif / else that ends handle_submit
Verdict(correct_color_count, cr) ==
    IF HasWon(correct_color_count) THEN "win"
    ELSE IF IsLastRow(cr) THEN "lose"
    ELSE "continue"

\* the dialog handle_submit is blocked in after painting the pegs, asked on
\* every scored guess
DialogAlways(verdict) == "askyesno"

\* the dialog handle_submit is blocked in after painting the pegs: askyesno
\* is called in the win and in the loss branch only
DialogAfter(verdict) == IF verdict \in {"win", "lose"} THEN "askyesno" ELSE "idle"

\* self.secret_code bound to the list the evaluation pops from
SecretAliased(secret, ev) == ev.remaining_colors

\* self.secret_code after the evaluation: remaining_colors is a copy
\* (self.secret_code[:]), so the pops do not reach it
SecretAfterEvaluation(secret, ev) == secret

\* handle_submit, the command of the SUBMIT button, up to its first dialog
HandleSubmit ==
    /\ pc = "idle"
    /\ submit_button # "disabled"
    /\ LET submitted_colors == SubmittedColors(button_list, current_row)
           ev == Evaluate(secret_code, submitted_colors)
           exact == ev.correct_color_count
           partial == ev.correct_location_color_count
           actual_row == ActualRow(current_row)
           verdict == Verdict(exact, current_row)
           inc == IncrementCurrentRow(button_list, current_row)
       IN  IF InvalidSubmission(submitted_colors)
           THEN /\ pc' = "showerror"
                /\ UNCHANGED <<current_row, secret_code, button_list,
                               feedback_label_list, submit_button,
                               instructional_label, outcome, attempts, history>>
           ELSE /\ instructional_label' = ScoreLabel(ev)
                /\ feedback_label_list' =
                      [feedback_label_list EXCEPT ![actual_row] = PaintPegs(@, exact, partial)]
                /\ secret_code' = SecretAfterEvaluation(secret_code, ev)
                /\ history' = Append(history, [row |-> current_row,
                                               guess |-> submitted_colors,
                                               exact |-> exact,
                                               partial |-> partial,
                                               pegs |-> PaintPegs(feedback_label_list[actual_row],
                                                                  exact, partial)])
                /\ IF PegOverflow(exact, partial)
                   THEN \* IndexError: the callback ends here
                        UNCHANGED <<current_row, button_list, submit_button, pc,
                                    outcome, attempts>>
                   ELSE IF verdict = "win"
                   THEN /\ button_list' = DeactivateCurrentRow(button_list, current_row)
                        /\ submit_button' = SubmitButtonOnEnd
                        /\ outcome' = "win"
                        /\ attempts' = current_row + 1
                        /\ pc' = DialogAfter(verdict)
                        /\ UNCHANGED current_row
                   ELSE IF verdict = "lose"
                   THEN /\ button_list' = DeactivateCurrentRow(button_list, current_row)
                        /\ submit_button' = SubmitButtonOnEnd
                        /\ outcome' = "lose"
                        /\ pc' = DialogAfter(verdict)
                        /\ UNCHANGED <<current_row, attempts>>
                   ELSE /\ current_row' = inc.current_row
                        /\ button_list' = inc.button_list
                        /\ pc' = DialogAfter(verdict)
                        /\ UNCHANGED <<submit_button, outcome, attempts>>
    /\ UNCHANGED <<game, current_color, start_time, start_button>>
    /\ UNCHANGED scoreVars

\* the user closes the 'Invalid submission.' dialog; handle_submit returns
DismissError ==
    /\ pc = "showerror"
    /\ pc' = "idle"
    /\ UNCHANGED <<game, current_row, secret_code, current_color, start_time,
                   button_list, feedback_label_list, start_button, submit_button,
                   instructional_label, outcome, attempts, history>>
    /\ UNCHANGED scoreVars

\* askyesno answered no: handle_submit returns
DeclinePlayAgain ==
    /\ pc = "askyesno"
    /\ pc' = "idle"
    /\ UNCHANGED <<game, current_row, secret_code, current_color, start_time,
                   button_list, feedback_label_list, start_button, submit_button,
                   instructional_label, outcome, attempts, history>>
    /\ UNCHANGED scoreVars

\* a replacement that keeps the old secret and start time (reset in place)
ReplacementGameKeepsSecret ==
    [FreshGame EXCEPT !.secret_code = secret_code, !.start_time = start_time]

\* a replacement that keeps the old board (reset in place)
ReplacementGameKeepsBoard ==
    [FreshGame EXCEPT !.button_list = button_list,
                      !.feedback_label_list = feedback_label_list]

\* the instance play_again constructs: MastermindGame(self.root, self.play_again)
ReplacementGame == FreshGame

\* askyesno answered yes: GameHandler.play_again replaces self.game
PlayAgain ==
    /\ pc = "askyesno"
    /\ game < MaxGames
    /\ game' = game + 1
    /\ current_row' = ReplacementGame.current_row
    /\ secret_code' = ReplacementGame.secret_code
    /\ current_color' = ReplacementGame.current_color
    /\ start_time' = ReplacementGame.start_time
    /\ button_list' = ReplacementGame.button_list
    /\ feedback_label_list' = ReplacementGame.feedback_label_list
    /\ start_button' = ReplacementGame.start_button
    /\ submit_button' = ReplacementGame.submit_button
    /\ instructional_label' = ReplacementGame.instructional_label
    /\ pc' = "idle"
    /\ outcome' = "none"
    /\ attempts' = 0
    /\ history' = <<>>
    /\ UNCHANGED scoreVars

Next ==
    \/ \E color \in ColorSet : SetColor(color)
    \/ \E row \in 0..(ROWS - 1), column \in 0..(COLUMNS - 1) : UpdateButtonColor(row, column)
    \/ StartGame
    \/ HandleSubmit
    \/ DismissError
    \/ DeclinePlayAgain
    \/ PlayAgain

Spec == Init /\ [][Next]_vars

\* --------------------------------------------------------- scoring harness
\* every secret and every valid guess, then the evaluation of handle_submit
ScoreInputs(n) ==
    /\ NewGame(1)
    /\ sS \in Codes(Range(SubSeq(ALL_COLORS, 1, n)))
    /\ sG \in Codes(Range(SubSeq(ALL_COLORS, 1, n)))
    /\ sOut = EvalStart(<<>>)
    /\ sPc = "input"

InitScore == ScoreInputs(ScoreColors)

ScoreGuess ==
    /\ sPc = "input"
    /\ sOut' = Evaluate(sS, sG)
    /\ sPc' = "scored"
    /\ UNCHANGED <<sS, sG>>
    /\ UNCHANGED gameVars

NextScore == ScoreGuess

SpecScore == InitScore /\ [][NextScore]_vars

\* the same harness on the smaller palette, for the checks that score every
\* permutation of every input
InitPermute == ScoreInputs(PermColors)

SpecPermute == InitPermute /\ [][NextScore]_vars

\* ------------------------------------------------------------- game state
\* NotStarted | InProgress | Won | Lost, read off the instance: no secret yet,
\* or the end-of-game dialog it has shown
GameState ==
    IF outcome = "win" THEN "Won"
    ELSE IF outcome = "lose" THEN "Lost"
    ELSE IF secret_code = <<>> THEN "NotStarted"
    ELSE "InProgress"

\* every slot of the active row holds one of COLORS
RowValid == \A idx \in RowIndices(current_row) : button_list[idx].background \in ColorSet

\* the exact-match count of the active row against the secret
RowExact == Evaluate(secret_code, SubmittedColors(button_list, current_row)).correct_color_count

RowDisabled(bl, cr) == \A idx \in RowIndices(cr) : bl[idx].state = "disabled"

\* position in NotStarted -> InProgress(0) -> ... -> InProgress(ROWS-1) -> Won | Lost
Rank ==
    IF GameState = "NotStarted" THEN 0
    ELSE IF GameState = "InProgress" THEN current_row + 1
    ELSE ROWS + 1

\* C5: a valid guess with exactMatches = COLUMNS submitted while InProgress(r),
\* on any row r including the last, makes the game Won with attempts = r + 1,
\* the score shown is (COLUMNS, 0), the current row is deactivated and SUBMIT
\* is disabled.
C5_WinTransition ==
    [][(HandleSubmit /\ GameState = "InProgress" /\ RowValid /\ RowExact = COLUMNS)
        => /\ GameState' = "Won"
           /\ attempts' = current_row + 1
           /\ current_row' = current_row
           /\ RowDisabled(button_list', current_row)
           /\ submit_button' = "disabled"
           /\ instructional_label'.location = COLUMNS
           /\ instructional_label'.color = 0
           /\ pc' = "askyesno"]_vars

\* the game was won on the last row
C5_Witness ==
    /\ GameState = "Won"
    /\ current_row = ROWS - 1
    /\ attempts = ROWS
    /\ Len(history) = ROWS

\* C6: the game becomes Lost exactly when the ROWS-th accepted guess is not a
\* win; it is never Lost after fewer than ROWS accepted guesses, a rejected
\* submission is not counted, and once Lost no submission is accepted.
C6_LossTransition ==
    /\ [](GameState = "Lost" =>
            /\ Len(history) = ROWS
            /\ current_row = ROWS - 1
            /\ history[ROWS].exact < COLUMNS
            /\ submit_button = "disabled"
            /\ ~ENABLED HandleSubmit)
    /\ [][(HandleSubmit /\ RowValid /\ current_row = ROWS - 1 /\ RowExact < COLUMNS)
            => GameState' = "Lost"]_vars
    /\ [][(GameState # "Lost" /\ GameState' = "Lost")
            => /\ HandleSubmit
               /\ RowValid
               /\ current_row = ROWS - 1
               /\ RowExact < COLUMNS
               /\ Len(history) = ROWS - 1]_vars
    /\ [][(HandleSubmit /\ ~RowValid)
            => (history' = history /\ GameState' # "Lost")]_vars
    /\ [][(GameState = "Lost" /\ game' = game)
            => (GameState' = "Lost" /\ history' = history)]_vars

\* the game was lost: ROWS guesses were scored and none of them won
C6_Witness ==
    /\ GameState = "Lost"
    /\ pc = "askyesno"
    /\ Len(history) = ROWS
    /\ \A k \in 1..ROWS : history[k].exact < COLUMNS

\* C7: when a slot of the active row holds a value that is not one of COLORS,
\* submit is rejected before any scoring: current_row, the secret, the pegs,
\* the rows' colours and enabled states, the label and the game state are
\* unchanged, on every row and however often it is repeated.
C7_RejectionChangesNothing ==
    /\ [][(HandleSubmit /\ ~RowValid)
            => /\ pc' = "showerror"
               /\ GameState' = GameState
               /\ UNCHANGED <<game, current_row, secret_code, current_color, start_time,
                              button_list, feedback_label_list, start_button,
                              submit_button, instructional_label, outcome, attempts,
                              history>>]_vars
    /\ [][pc = "showerror"
            => /\ pc' = "idle"
               /\ GameState' = "InProgress"
               /\ UNCHANGED <<current_row, secret_code, button_list,
                              feedback_label_list, history>>]_vars
    /\ [](pc = "showerror" => (GameState = "InProgress" /\ ~RowValid))

\* an incomplete guess was rejected on the last row, after a scored row
C7_Witness ==
    /\ pc = "showerror"
    /\ current_row = ROWS - 1
    /\ Len(history) = ROWS - 1
    /\ \E idx \in RowIndices(current_row) : button_list[idx].background \in ColorSet

\* C8: submit takes effect only in InProgress: in NotStarted, Won and Lost the
\* SUBMIT button is disabled and handle_submit cannot run.
C8_SubmitOnlyInProgress ==
    GameState # "InProgress" => (submit_button = "disabled" /\ ~ENABLED HandleSubmit)

\* the player lost and declined to play again
C8_Witness ==
    /\ GameState = "Lost"
    /\ pc = "idle"
    /\ game = 1

\* C9: once an instance has left NotStarted, START is disabled and start_game
\* cannot run again: the secret is not regenerated, current_row is not reset
\* to 0 and start_time is not overwritten.
C9_StartOnlyOnce ==
    /\ [](GameState # "NotStarted" => (start_button = "disabled" /\ ~ENABLED StartGame))
    /\ [][(GameState # "NotStarted" /\ game' = game)
            => /\ secret_code' = secret_code
               /\ start_time' = start_time
               /\ (current_row' = 0 => current_row = 0)
               /\ ~StartGame]_vars

\* a started instance that has moved past row 0
C9_Witness ==
    /\ GameState = "InProgress"
    /\ current_row = ROWS - 1
    /\ start_time = MaxTime
    /\ start_button = "disabled"

\* C10: within one instance the state only moves forward, NotStarted ->
\* InProgress(0) -> InProgress(1) -> ... -> Won | Lost; current_row is None
\* before start, 0 right after start_game, in 0..ROWS-1 afterwards, never
\* decreases and grows by exactly 1 on each accepted non-winning guess that is
\* not on the last row, so the rows scored are 0, 1, 2, ... each once.
C10_StrictlyForward ==
    /\ [](/\ (GameState = "NotStarted" => (current_row = NoneRow /\ history = <<>>))
          /\ (GameState # "NotStarted" => current_row \in 0..(ROWS - 1))
          /\ \A k \in 1..Len(history) : history[k].row = k - 1
          /\ (GameState = "InProgress" => Len(history) = current_row)
          /\ (GameState \in {"Won", "Lost"} => Len(history) = current_row + 1))
    /\ [][game' = game
            => /\ \/ Rank' = Rank
                  \/ Rank' = Rank + 1
                  \/ (GameState = "InProgress" /\ GameState' \in {"Won", "Lost"})
               /\ \/ current_row' = current_row
                  \/ (current_row = NoneRow /\ current_row' = 0)
                  \/ (current_row # NoneRow /\ current_row' = current_row + 1)]_vars
    /\ [][(GameState = "NotStarted" /\ GameState' # "NotStarted")
            => (GameState' = "InProgress" /\ current_row' = 0)]_vars
    /\ [][(HandleSubmit /\ RowValid /\ RowExact < COLUMNS /\ current_row < ROWS - 1)
            => (current_row' = current_row + 1 /\ GameState' = "InProgress")]_vars

\* the last row is reached with every earlier row scored once
C10_Witness ==
    /\ GameState = "InProgress"
    /\ current_row = ROWS - 1
    /\ Len(history) = ROWS - 1
    /\ \A k \in 1..Len(history) : history[k].row = k - 1

\* the grid rows (top to bottom) that hold a button the user can click
EnabledGridRows ==
    {r \in 0..(ROWS - 1) :
        \E c \in 0..(COLUMNS - 1) : button_list[r * COLUMNS + c].state # "disabled"}

\* C11: while the game is InProgress exactly one row of guess cells is
\* enabled, the row of current_row (grid row ROWS-1-current_row), and all its
\* cells are; in NotStarted, Won and Lost no row is enabled.
C11_OneActiveRow ==
    /\ GameState = "InProgress" =>
          /\ EnabledGridRows = {ROWS - 1 - current_row}
          /\ \A c \in 0..(COLUMNS - 1) :
                button_list[(ROWS - 1 - current_row) * COLUMNS + c].state # "disabled"
    /\ GameState # "InProgress" => EnabledGridRows = {}

\* the last row (grid row 0) is the one enabled row, after earlier rows were used
C11_Witness ==
    /\ GameState = "InProgress"
    /\ current_row = ROWS - 1
    /\ ROWS > 1
    /\ EnabledGridRows = {0}
    /\ button_list[(ROWS - 1) * COLUMNS].background \in ColorSet

\* C12: once start_game has generated it, secret_code is left unchanged by
\* every later operation of that instance: colour selection, cell colouring,
\* valid, invalid, winning and losing submits (scoring pops colours from a
\* copy only).
C12_SecretImmutable ==
    [][(secret_code # <<>> /\ game' = game)
        => (secret_code' = secret_code /\ secret_code' \in Codes(ColorSet))]_vars

\* a game that was scored on every row and lost still holds a full secret
C12_Witness ==
    /\ GameState = "Lost"
    /\ Len(history) = ROWS
    /\ Len(secret_code) = COLUMNS
    /\ \A k \in 1..ROWS : history[k].guess # secret_code

\* the pegs a scored row shows, as they were painted when it was scored
ScoredRowIntact(h) ==
    /\ SubmittedColors(button_list, h.row) = h.guess
    /\ feedback_label_list[ROWS - 1 - h.row] = h.pegs
    /\ \A c \in 0..(COLUMNS - 1) :
          button_list[(ROWS - 1 - h.row) * COLUMNS + c].state = "disabled"

\* C13: once a row has been scored, the colours of its cells and its pegs are
\* the ones it was scored with in every later state of the instance, and its
\* cells stay disabled.
C13_ScoredRowsImmutable ==
    \A k \in 1..Len(history) : ScoredRowIntact(history[k])

\* a scored row below the active one while the user has coloured the active
\* row differently and a later submit has painted other pegs
C13_Witness ==
    /\ Len(history) = ROWS
    /\ ROWS > 1
    /\ history[1].guess # history[ROWS].guess
    /\ history[1].pegs # history[ROWS].pegs
    /\ pc = "idle"

\* every field of the instance except the palette selection
InstanceFields ==
    <<current_row, secret_code, start_time, button_list, feedback_label_list,
      start_button, submit_button, instructional_label, outcome, attempts, history>>

\* C14: play_again runs only from the play-again question of a game that is
\* Won or Lost, and only on the answer yes; the game is never replaced while
\* NotStarted or InProgress, and the answer no leaves the finished game as it
\* is, in its terminal state.
C14_RestartOnlyWhenOver ==
    /\ [](pc = "askyesno" => GameState \in {"Won", "Lost"})
    /\ [](ENABLED PlayAgain => (GameState \in {"Won", "Lost"} /\ pc = "askyesno"))
    /\ [][game' # game
            => /\ PlayAgain
               /\ pc = "askyesno"
               /\ GameState \in {"Won", "Lost"}]_vars
    /\ [][(pc = "askyesno" /\ game' = game)
            => /\ pc' = "idle"
               /\ GameState' = GameState
               /\ UNCHANGED InstanceFields]_vars
    /\ [][(GameState \in {"Won", "Lost"} /\ pc = "idle") => game' = game]_vars

\* the first game was restarted; the second was won and the player declined
C14_Witness ==
    /\ game = 2
    /\ GameState = "Won"
    /\ pc = "idle"

\* C15 as stated: right after play_again the new instance is InProgress(0)
\* with a generated secret and a recorded start time.
C15_RestartStartsGame ==
    [][game' # game
        => /\ GameState' = "InProgress"
           /\ current_row' = 0
           /\ secret_code' \in Codes(ColorSet)
           /\ start_time' # NoneTime]_vars

\* C15 amended: right after play_again the new instance is NotStarted
\* (current_row, secret_code and start_time unset, START clickable, SUBMIT
\* disabled); it becomes InProgress(0) with a newly generated secret and a
\* recorded start time when, and only when, START is clicked.
C15_RestartAwaitsStart ==
    /\ [][game' # game
            => /\ GameState' = "NotStarted"
               /\ current_row' = NoneRow
               /\ secret_code' = <<>>
               /\ start_time' = NoneTime
               /\ start_button' # "disabled"
               /\ submit_button' = "disabled"
               /\ pc' = "idle"]_vars
    /\ [][(GameState = "NotStarted" /\ GameState' # "NotStarted")
            => /\ StartGame
               /\ GameState' = "InProgress"
               /\ current_row' = 0
               /\ secret_code' \in Codes(ColorSet)
               /\ start_time' \in 1..MaxTime]_vars

\* the restarted instance was started by a click on START
C15_Witness ==
    /\ game = 2
    /\ GameState = "InProgress"
    /\ current_row = 0
    /\ start_time # NoneTime
    /\ history = <<>>

\* the pegs of a row scored (exact, partial): red first, then white, then black
ExpectedPegs(exact, partial) ==
    [k \in 0..(PEGS - 1) |->
        IF k \in 0..(exact - 1) THEN "red"
        ELSE IF k \in exact..(exact + partial - 1) THEN "white"
        ELSE "black"]

\* C17: for every accepted guess the scored row's pegs 0..exactMatches-1 are
\* red, the next colorMatches pegs are white and the rest stay black; the peg
\* index never reaches 4; rows not yet scored show only black pegs.
C17_PegsExactThenPartial ==
    /\ \A k \in 1..Len(history) :
          /\ feedback_label_list[ROWS - 1 - history[k].row]
                = ExpectedPegs(history[k].exact, history[k].partial)
          /\ history[k].exact + history[k].partial <= 4
    /\ \A r \in 0..(ROWS - 1) :
          (\A k \in 1..Len(history) : history[k].row # ROWS - 1 - r)
             => \A i \in 0..(PEGS - 1) : feedback_label_list[r][i] = "black"

\* a scored row showing a red peg, then white pegs, then a black one
C17_Witness ==
    /\ Len(history) >= 1
    /\ history[1].exact = 1
    /\ history[1].partial = 2
    /\ feedback_label_list[ROWS - 1] = (0 :> "red" @@ 1 :> "white" @@ 2 :> "white" @@ 3 :> "black")

\* C18: after a confirmed play_again the handler's game is a new instance
\* (the next one) whose every field is as the constructor leaves it:
\* current_row, secret_code and start_time unset, all rows disabled and gray,
\* all pegs black, nothing scored, whether the previous game was Won or Lost.
C18_RestartCarriesNothingOver ==
    /\ [][game' # game
            => /\ game' = game + 1
               /\ GameState \in {"Won", "Lost"}
               /\ current_row' = NoneRow
               /\ secret_code' = <<>>
               /\ start_time' = NoneTime
               /\ \A idx \in ButtonIndices :
                     button_list'[idx] = [background |-> "gray", state |-> "disabled"]
               /\ \A r \in 0..(ROWS - 1), i \in 0..(PEGS - 1) :
                     feedback_label_list'[r][i] = "black"
               /\ current_color' = ALL_COLORS[1]
               /\ instructional_label'.text = "Click START to begin."
               /\ start_button' = "normal"
               /\ submit_button' = "disabled"
               /\ pc' = "idle"
               /\ outcome' = "none"
               /\ attempts' = 0
               /\ history' = <<>>]_vars
    /\ [](GameState = "NotStarted" =>
            /\ \A idx \in ButtonIndices :
                  button_list[idx] = [background |-> "gray", state |-> "disabled"]
            /\ \A r \in 0..(ROWS - 1), i \in 0..(PEGS - 1) :
                  feedback_label_list[r][i] = "black")

\* the second instance, not yet started, with another palette colour selected
C18_Witness ==
    /\ game = 2
    /\ GameState = "NotStarted"
    /\ current_color # ALL_COLORS[1]
    /\ start_button = "normal"

\* ------------------------------------------------------ scoring properties
Scored == sPc = "scored"
exactMatches == sOut.correct_color_count
colorMatches == sOut.correct_location_color_count

Min(a, b) == IF a <= b THEN a ELSE b
Occurrences(c, code) == Cardinality({k \in 1..Len(code) : code[k] = c})
EqualPositions(S, G) == Cardinality({k \in 1..Len(S) : G[k] = S[k]})

RECURSIVE SumMin(_, _, _)
SumMin(colors, S, G) ==
    IF colors = {}
    THEN 0
    ELSE LET c == CHOOSE x \in colors : TRUE
         IN  Min(Occurrences(c, S), Occurrences(c, G)) + SumMin(colors \ {c}, S, G)

\* the total colour overlap of S and G, counting multiplicity
Overlap(S, G) == SumMin(Range(S) \cup Range(G), S, G)

Permutations4 == {p \in [1..COLUMNS -> 1..COLUMNS] : \A a, b \in 1..COLUMNS : p[a] = p[b] => a = b}
Permute(code, p) == [k \in 1..COLUMNS |-> code[p[k]]]

\* C1: for every secret and every valid guess the score satisfies
\* 0 <= exactMatches <= COLUMNS, 0 <= colorMatches <= COLUMNS and
\* exactMatches + colorMatches <= COLUMNS.
C1_ScoreWithinBounds ==
    Scored =>
        /\ exactMatches \in 0..COLUMNS
        /\ colorMatches \in 0..COLUMNS
        /\ exactMatches + colorMatches <= COLUMNS

\* every position matched, some of them by colour only
C1_Witness ==
    /\ Scored
    /\ exactMatches + colorMatches = COLUMNS
    /\ colorMatches = COLUMNS - 1 - 1
    /\ Cardinality(Range(sS)) < COLUMNS

\* C2: exactMatches equals COLUMNS (and a win is declared) exactly when the
\* guess equals the secret element-wise.
C2_AllExactIffEqual ==
    Scored =>
        /\ (exactMatches = COLUMNS) <=> (sG = sS)
        /\ HasWon(exactMatches) <=> (\A k \in 1..COLUMNS : sG[k] = sS[k])

\* the guess is the secret, with a repeated colour in it
C2_Witness ==
    /\ Scored
    /\ sG = sS
    /\ Cardinality(Range(sS)) = 2
    /\ exactMatches = COLUMNS

\* C3: exactMatches is the number of positions where guess and secret agree,
\* and exactMatches + colorMatches is the sum over colours of the smaller of
\* the colour's occurrences in the secret and in the guess; the secret
\* red,red,blue,green with the guess red,blue,red,yellow scores (1, 2).
C3_DuplicateColors ==
    /\ Scored =>
          /\ exactMatches = EqualPositions(sS, sG)
          /\ exactMatches + colorMatches = Overlap(sS, sG)
    /\ LET ev == Evaluate(<<"red", "red", "blue", "green">>,
                          <<"red", "blue", "red", "yellow">>)
       IN  /\ ev.correct_color_count = 1
           /\ ev.correct_location_color_count = 2

\* the example's shape on the harness palette: a doubled secret colour, one
\* exact match, two colour-only matches and one guess colour not in the secret
C3_Witness ==
    /\ Scored
    /\ sS = <<"red", "red", "blue", "pink">>
    /\ sG = <<"red", "blue", "red", "yellow">>
    /\ exactMatches = 1
    /\ colorMatches = 2

\* C4: scoring (S, G) and scoring (p(S), p(G)) for the same permutation p of
\* the positions give the same pair (exactMatches, colorMatches).
C4_PermutationInvariant ==
    Scored =>
        \A p \in Permutations4 :
            LET ev == Evaluate(Permute(sS, p), Permute(sG, p))
            IN  /\ ev.correct_color_count = exactMatches
                /\ ev.correct_location_color_count = colorMatches

\* a scored pair with both kinds of match that some permutation really moves
C4_Witness ==
    /\ Scored
    /\ exactMatches = 2
    /\ colorMatches = 1
    /\ \E p \in Permutations4 : Permute(sS, p) # sS /\ Permute(sG, p) # sG

\* C16: the diagnostic is never printed: whenever guess[i] = secret[i] in the
\* first pass that colour is still in remaining_colors, the guarded removal
\* of the second pass finds its colour too, and position i is marked settled
\* exactly when it is an exact match, so every counted exact match is settled.
C16_DiagnosticUnreachable ==
    Scored =>
        /\ sOut.printed = FALSE
        /\ \A i \in 1..COLUMNS : sOut.correct_color_tracker[i] <=> (sG[i] = sS[i])
        /\ Cardinality({i \in 1..COLUMNS : sOut.correct_color_tracker[i]}) = exactMatches
        /\ Len(sOut.remaining_colors) = COLUMNS - exactMatches - colorMatches

\* two exact matches on a doubled secret colour and a colour-only match
C16_Witness ==
    /\ Scored
    /\ sS[1] = sS[2]
    /\ sG[1] = sS[1]
    /\ sG[2] = sS[2]
    /\ exactMatches = 2
    /\ colorMatches = 1
    /\ sOut.printed = FALSE

=============================================================================
